---- MODULE Spec2Model ----
(***************************************************************************)
(* Model of clash_manager's ConfigManager (src/config_manager.py): the     *)
(* structural differ of save_modification, the merge engine of             *)
(* apply_modification and the rule-list editor (add_rule, update_rule,     *)
(* delete_rule, move_rule), together with the document store they use.     *)
(*                                                                         *)
(* Python values are represented as follows.                               *)
(*   dict            a function whose DOMAIN is the set of keys            *)
(*   list            a sequence                                            *)
(*   str             a sequence of tokens (so that ",".join is modelled    *)
(*                   by what it does), or a TLA+ string for opaque names   *)
(*   None            the value None                                        *)
(*   a rule          [kind, text]: kind "str" is a Python str whose        *)
(*                   content is text; any other kind is a non-str YAML     *)
(*                   scalar whose str() is text                            *)
(***************************************************************************)
EXTENDS Integers, Sequences, FiniteSets, TLC

VARIABLES
    original_file,  \* content of original_config.yaml (a dict; << >> when the file is missing)
    merged_file,    \* content of config.yaml as last written by save_config
    modifications,  \* the modifications directory: filename -> stored patch
    now,            \* the clock read by datetime.now(), in whole seconds
    saved,          \* the argument of the last save_custom call
    result,         \* what the last handler returned, or the exception it raised
    last,           \* the last handler that ran and its arguments
    base, working, patch, target, out, out2, pc   \* documents handed to the differ, the merge engine and the rule editor, and their results

vars == <<original_file, merged_file, modifications, now, saved, result, last,
          base, working, patch, target, out, out2, pc>>

store_vars == <<original_file, merged_file, modifications, now, saved, result, last>>
fn_vars == <<base, working, patch, target, out, out2, pc>>

-----------------------------------------------------------------------------
(* Bounds of the model *)

MaxSize == 2      \* groups plus rules of a snapshot given to the differ
MaxTarget == 1    \* groups plus rules of a target given to the merge engine
MaxPatch == 2     \* entries of a patch that the differ did not produce
MaxEdit == 3      \* rules of a list given to the rule editor
MaxTime == 1      \* seconds the clock may advance

None == "None"

-----------------------------------------------------------------------------
(* Python helpers *)

Range(s) == {s[i] : i \in 1..Len(s)}

EmptyDict == << >>

\* d.get(k, default)
Get(d, k, default) == IF k \in DOMAIN d THEN d[k] ELSE default

\* d[k] = v on a dict
Put(d, k, v) == [x \in (DOMAIN d) \cup {k} |-> IF x = k THEN v ELSE d[x]]

RECURSIVE SelectSeqBy(_, _)
\* [x for x in s if x in keep]
SelectSeqBy(s, keep) ==
    IF s = << >> THEN << >>
    ELSE IF Head(s) \in keep THEN <<Head(s)>> \o SelectSeqBy(Tail(s), keep)
    ELSE SelectSeqBy(Tail(s), keep)

RECURSIVE DropSeqBy(_, _)
\* [x for x in s if x not in drop]
DropSeqBy(s, drop) ==
    IF s = << >> THEN << >>
    ELSE IF Head(s) \in drop THEN DropSeqBy(Tail(s), drop)
    ELSE <<Head(s)>> \o DropSeqBy(Tail(s), drop)

\* the order in which a Python set of proxies is listed; the language leaves
\* it unspecified, the model lists it in the order of ProxyOrder
ProxyOrder == <<"p1", "p2">>
ListOfSet(S) == SelectSeqBy(ProxyOrder, S)

\* str(r) of a rule value
Str(r) == r.text

RECURSIVE Join(_)
\* ",".join(parts), each part a token sequence
Join(parts) ==
    IF parts = << >> THEN << >>
    ELSE IF Len(parts) = 1 THEN parts[1]
    ELSE parts[1] \o <<",">> \o Join(Tail(parts))

\* {g["name"]: g for g in groups}: keys in order of first occurrence,
\* each key bound to the last group of that name
DictKeys(groups) ==
    LET RECURSIVE Keys(_, _)
        Keys(s, seen) ==
            IF s = << >> THEN << >>
            ELSE IF Head(s)["name"] \in seen THEN Keys(Tail(s), seen)
            ELSE <<Head(s)["name"]>> \o Keys(Tail(s), seen \cup {Head(s)["name"]})
    IN Keys(groups, {})

DictValue(groups, name) ==
    LET idx == {i \in 1..Len(groups) : groups[i]["name"] = name}
        top == CHOOSE i \in idx : \A j \in idx : j <= i
    IN groups[top]

-----------------------------------------------------------------------------
(* The documents the model draws its inputs from *)

\* rule_data of the rule editor: type, value and proxy are strings
RuleData ==
    [type : {<<"T">>}, value : {<<"v">>, <<"w">>},
     proxy : {<<"P">>, <<"P", ",", "no-resolve">>}, no_resolve : BOOLEAN]

\* lines 138-141 and 158-161: the canonical string of a rule
rule_str(rule_data) ==
    Join(<<rule_data.type, rule_data.value, rule_data.proxy>>
         \o (IF rule_data.no_resolve THEN << <<"no-resolve">> >> ELSE << >>))

StrRule(text) == [kind |-> "str", text |-> text]

\* the rules of a document: two strings and a YAML integer whose str() is
\* the second string
RuleVals == {StrRule(<<"T", ",", "v", ",", "P">>), StrRule(<<"1">>), [kind |-> "int", text |-> <<"1">>]}

MkGroup(name, proxies, type) ==
    IF type = None
    THEN [k \in {"name", "proxies"} |-> IF k = "name" THEN name ELSE proxies]
    ELSE [k \in {"name", "proxies", "type"} |->
             IF k = "name" THEN name ELSE IF k = "proxies" THEN proxies ELSE type]

Groups ==
    {MkGroup("g1", p, t) : p \in {<<"p1">>, <<"p1", "p2">>, <<"p2", "p1">>},
                           t \in {None, "select", "url-test"}}
    \cup {MkGroup("g2", <<"p1">>, t) : t \in {None, "select"}}

SeqsOfLen(S, n) == [1..n -> S]
SeqsUpTo(S, n) == UNION {SeqsOfLen(S, k) : k \in 0..n}

UniqueNames(groups) == \A i, j \in 1..Len(groups) : groups[i]["name"] = groups[j]["name"] => i = j

\* a group name is unique within a snapshot
GroupLists(n) == {gs \in SeqsUpTo(Groups, n) : UniqueNames(gs)}

MkConfig(groups, rules) == [k \in {"proxy-groups", "rules"} |-> IF k = "rules" THEN rules ELSE groups]

Configs(size) ==
    UNION {{MkConfig(gs, rs) : gs \in {g \in GroupLists(size) : Len(g) = n},
                               rs \in SeqsUpTo(RuleVals, size - n)} : n \in 0..size}

Snapshots == Configs(MaxSize)
Targets == Configs(MaxTarget)

-----------------------------------------------------------------------------
(* Structural differ: the body of save_modification *)

\* lines 244-247
added_groups(original_config, current_custom) ==
    LET og == Get(original_config, "proxy-groups", << >>)
        cg == Get(current_custom, "proxy-groups", << >>)
        ck == DictKeys(cg)
        RECURSIVE Walk(_)
        Walk(ks) ==
            IF ks = << >> THEN << >>
            ELSE IF Head(ks) \notin Range(DictKeys(og))
                 THEN <<DictValue(cg, Head(ks))>> \o Walk(Tail(ks))
                 ELSE Walk(Tail(ks))
    IN Walk(ck)

\* lines 262-268
fields_changed(old_group, new_group) ==
    LET ks == {key \in DOMAIN old_group :
                  key # "proxies" /\ Get(old_group, key, None) # Get(new_group, key, None)}
    IN [key \in ks |-> [old |-> Get(old_group, key, None), new |-> Get(new_group, key, None)]]

\* lines 250-277
modified_entry(name, old_group, new_group) ==
    LET old_proxies == Range(Get(old_group, "proxies", << >>))
        new_proxies == Range(Get(new_group, "proxies", << >>))
    IN [name |-> name,
        added_proxies |-> ListOfSet(new_proxies \ old_proxies),
        deleted_proxies |-> ListOfSet(old_proxies \ new_proxies),
        fields_changed |-> fields_changed(old_group, new_group),
        old |-> old_group,
        new |-> new_group]

\* variant: the two records are compared by identity, so they always differ
group_differs_identity(old_group, new_group) == TRUE

\* the test that decides whether a group present in both snapshots is recorded, line 248
group_differs(old_group, new_group) == old_group # new_group

\* lines 244-277
modified_groups(original_config, current_custom) ==
    LET og == Get(original_config, "proxy-groups", << >>)
        cg == Get(current_custom, "proxy-groups", << >>)
        RECURSIVE Walk(_)
        Walk(ks) ==
            IF ks = << >> THEN << >>
            ELSE IF Head(ks) \in Range(DictKeys(og))
                    /\ group_differs(DictValue(og, Head(ks)), DictValue(cg, Head(ks)))
                 THEN <<modified_entry(Head(ks), DictValue(og, Head(ks)), DictValue(cg, Head(ks)))>>
                      \o Walk(Tail(ks))
                 ELSE Walk(Tail(ks))
    IN Walk(DictKeys(cg))

\* lines 278-280
deleted_group_names(original_config, current_custom) ==
    LET og == Get(original_config, "proxy-groups", << >>)
        cg == Get(current_custom, "proxy-groups", << >>)
    IN DropSeqBy(DictKeys(og), Range(DictKeys(cg)))

RECURSIVE RulesNotIn(_, _)
\* [r for r in rules if str(r) not in strs]
RulesNotIn(rules, strs) ==
    IF rules = << >> THEN << >>
    ELSE IF Str(Head(rules)) \notin strs THEN <<Head(rules)>> \o RulesNotIn(Tail(rules), strs)
    ELSE RulesNotIn(Tail(rules), strs)

StrSet(rules) == {Str(rules[i]) : i \in 1..Len(rules)}

\* lines 291-298
added_rules(original_config, current_custom) ==
    RulesNotIn(Get(current_custom, "rules", << >>), StrSet(Get(original_config, "rules", << >>)))

\* lines 300-304
deleted_rules(original_config, current_custom) ==
    RulesNotIn(Get(original_config, "rules", << >>), StrSet(Get(current_custom, "rules", << >>)))

\* variant: the reorder test forgets the deleted rules
modified_rules_no_deleted(original_config, current_custom) ==
    LET original_rules == Get(original_config, "rules", << >>)
        current_rules == Get(current_custom, "rules", << >>)
    IN IF original_rules # current_rules
          /\ added_rules(original_config, current_custom) = << >>
       THEN << [type |-> "reorder", old_rules |-> original_rules, new_rules |-> current_rules] >>
       ELSE << >>

\* lines 306-313
modified_rules(original_config, current_custom) ==
    LET original_rules == Get(original_config, "rules", << >>)
        current_rules == Get(current_custom, "rules", << >>)
    IN IF original_rules # current_rules
          /\ added_rules(original_config, current_custom) = << >>
          /\ deleted_rules(original_config, current_custom) = << >>
       THEN << [type |-> "reorder", old_rules |-> original_rules, new_rules |-> current_rules] >>
       ELSE << >>

\* lines 316-330 (name, description and created_at are carried by the store)
modification(original_config, current_custom) ==
    [proxy_groups |-> [added |-> added_groups(original_config, current_custom),
                       modified |-> modified_groups(original_config, current_custom),
                       deleted |-> deleted_group_names(original_config, current_custom)],
     rules |-> [added |-> added_rules(original_config, current_custom),
                modified |-> modified_rules(original_config, current_custom),
                deleted |-> deleted_rules(original_config, current_custom)]]

-----------------------------------------------------------------------------
(* Merge engine: the body of apply_modification *)

\* variant: the guard tests the key it resets
init_custom_same_key(custom) ==
    LET c1 == IF "proxy-groups" \notin DOMAIN custom THEN Put(custom, "proxy-groups", << >>) ELSE custom
    IN IF "rules" \notin DOMAIN c1 THEN Put(c1, "rules", << >>) ELSE c1

\* lines 421-424: the guard tests the key "proxy_groups", the list it resets
\* is the one under "proxy-groups"
init_custom(custom) ==
    LET c1 == IF "proxy_groups" \notin DOMAIN custom THEN Put(custom, "proxy-groups", << >>) ELSE custom
    IN IF "rules" \notin DOMAIN c1 THEN Put(c1, "rules", << >>) ELSE c1

GroupNames(groups) == {groups[i]["name"] : i \in 1..Len(groups)}

RECURSIVE GroupsNotNamed(_, _)
\* [g for g in groups if g["name"] not in names]
GroupsNotNamed(groups, names) ==
    IF groups = << >> THEN << >>
    ELSE IF Head(groups)["name"] \in names THEN GroupsNotNamed(Tail(groups), names)
    ELSE <<Head(groups)>> \o GroupsNotNamed(Tail(groups), names)

\* lines 430-434
apply_added_groups(groups, added) ==
    IF added # << >> THEN groups \o GroupsNotNamed(added, GroupNames(groups)) ELSE groups

\* lines 447-460
apply_proxies(current_group, mod_group) ==
    IF mod_group.added_proxies # << >> \/ mod_group.deleted_proxies # << >>
    THEN Put(current_group, "proxies",
             ListOfSet((Range(Get(current_group, "proxies", << >>))
                          \cup Range(mod_group.added_proxies))
                       \ Range(mod_group.deleted_proxies)))
    ELSE current_group

\* lines 463-465
apply_fields(current_group, mod_group) ==
    [field \in (DOMAIN current_group) \cup (DOMAIN mod_group.fields_changed) |->
        IF field \in DOMAIN mod_group.fields_changed
        THEN mod_group.fields_changed[field].new
        ELSE current_group[field]]

\* custom_groups = {g["name"]: i ...}, line 438: the last index of each name
IndexOf(groups, name) ==
    LET idx == {i \in 1..Len(groups) : groups[i]["name"] = name}
    IN CHOOSE i \in idx : \A j \in idx : j <= i

RECURSIVE ModifyLoop(_, _, _)
\* lines 439-470: custom_groups is built once, before the loop, from first
ModifyLoop(groups, first, mods) ==
    IF mods = << >> THEN groups
    ELSE LET mod_group == Head(mods)
             group_name == mod_group.name
         IN IF group_name \in GroupNames(first)
            THEN LET group_idx == IndexOf(first, group_name)
                 IN ModifyLoop([groups EXCEPT ![group_idx] =
                                   apply_fields(apply_proxies(groups[group_idx], mod_group), mod_group)],
                               first, Tail(mods))
            ELSE ModifyLoop(Append(groups, mod_group.new), first, Tail(mods))

\* lines 437-470
apply_modified_groups(groups, modified) == ModifyLoop(groups, groups, modified)

\* lines 473-478
apply_deleted_groups(groups, deleted) ==
    IF deleted # << >> THEN GroupsNotNamed(groups, Range(deleted)) ELSE groups

\* lines 484-488: existing_rules is built once, before the loop
apply_added_rules(rules, added) ==
    IF added # << >> THEN rules \o RulesNotIn(added, StrSet(rules)) ELSE rules

\* variant: the reorder step keeps, after new_rules, the rules it finds in the
\* list that new_rules does not name
apply_modified_rules_keep_added(rules, modified) ==
    LET reorders == {i \in 1..Len(modified) : modified[i].type = "reorder"}
    IN IF reorders = {} THEN rules
       ELSE LET new_rules == modified[CHOOSE i \in reorders : \A j \in reorders : j <= i].new_rules
            IN new_rules \o RulesNotIn(rules, StrSet(new_rules))

RECURSIVE apply_modified_rules(_, _)
\* lines 491-495
apply_modified_rules(rules, modified) ==
    IF modified = << >> THEN rules
    ELSE IF Head(modified).type = "reorder"
         THEN apply_modified_rules(Head(modified).new_rules, Tail(modified))
         ELSE apply_modified_rules(rules, Tail(modified))

\* lines 498-503
apply_deleted_rules(rules, deleted) ==
    IF deleted # << >> THEN RulesNotIn(rules, StrSet(deleted)) ELSE rules

\* variant: the groups named in deleted are removed before the added groups
\* are appended
apply_custom_delete_first(mod_data, custom) ==
    LET c == init_custom(custom)
        pg_changes == mod_data.proxy_groups
        rules_changes == mod_data.rules
        groups == apply_modified_groups(
                      apply_added_groups(
                          apply_deleted_groups(c["proxy-groups"], pg_changes.deleted),
                          pg_changes.added),
                      pg_changes.modified)
        rules == apply_deleted_rules(
                     apply_modified_rules(
                         apply_added_rules(c["rules"], rules_changes.added),
                         rules_changes.modified),
                     rules_changes.deleted)
    IN Put(Put(c, "proxy-groups", groups), "rules", rules)

\* lines 418-503: the custom configuration handed to save_custom
apply_custom(mod_data, custom) ==
    LET c == init_custom(custom)
        pg_changes == mod_data.proxy_groups
        rules_changes == mod_data.rules
        groups == apply_deleted_groups(
                      apply_modified_groups(
                          apply_added_groups(c["proxy-groups"], pg_changes.added),
                          pg_changes.modified),
                      pg_changes.deleted)
        rules == apply_deleted_rules(
                     apply_modified_rules(
                         apply_added_rules(c["rules"], rules_changes.added),
                         rules_changes.modified),
                     rules_changes.deleted)
    IN Put(Put(c, "proxy-groups", groups), "rules", rules)

-----------------------------------------------------------------------------
(* Patches read from the modifications directory that no diff produced *)

PatchGroup(name) == IF name = "g1" THEN MkGroup("g1", <<"p1">>, None) ELSE MkGroup("g2", <<"p1">>, "select")

AddedGroups == {PatchGroup("g1"), PatchGroup("g2"), MkGroup("g1", <<"p1", "p2">>, "select")}

NoFields == [key \in {} |-> None]

ModEntry(n, a, d, f) ==
    [name |-> n, added_proxies |-> a, deleted_proxies |-> d, fields_changed |-> f,
     old |-> PatchGroup(n), new |-> PatchGroup(n)]

TypeChange == [key \in {"type"} |-> [old |-> "select", new |-> "url-test"]]

ModEntries ==
    {ModEntry("g1", a, d, f) : a \in {<< >>, <<"p2">>}, d \in {<< >>, <<"p2">>}, f \in {NoFields, TypeChange}}
    \cup {ModEntry("g2", << >>, << >>, TypeChange), ModEntry("g2", <<"p2">>, << >>, NoFields)}

ReorderEntries ==
    {[type |-> "reorder", old_rules |-> << >>, new_rules |-> rs] :
        rs \in {<< >>} \cup SeqsOfLen({StrRule(<<"1">>), StrRule(<<"T", ",", "v", ",", "P">>)}, 1)
                \cup {<<StrRule(<<"1">>), StrRule(<<"T", ",", "v", ",", "P">>)>>,
                      <<StrRule(<<"T", ",", "v", ",", "P">>), StrRule(<<"1">>)>>}}

MkPatch(a, m, d, ra, rm, rd) ==
    [proxy_groups |-> [added |-> a, modified |-> m, deleted |-> d],
     rules |-> [added |-> ra, modified |-> rm, deleted |-> rd]]

EmptyPatch == MkPatch(<< >>, << >>, << >>, << >>, << >>, << >>)

\* how the entries of a patch are spread over its six lists
Splits == {s \in [1..6 -> 0..MaxPatch] : s[1] + s[2] + s[3] + s[4] + s[5] + s[6] <= MaxPatch /\ s[5] <= 1}

Patches ==
    UNION {{MkPatch(a, m, d, ra, rm, rd) :
               a \in SeqsOfLen(AddedGroups, s[1]), m \in SeqsOfLen(ModEntries, s[2]),
               d \in SeqsOfLen({"g1", "g2"}, s[3]), ra \in SeqsOfLen(RuleVals, s[4]),
               rm \in SeqsOfLen(ReorderEntries, s[5]), rd \in SeqsOfLen(RuleVals, s[6])} :
           s \in Splits}

-----------------------------------------------------------------------------
(* State *)

EmptyConfig == MkConfig(<< >>, << >>)

Phase(p, f) == [phase |-> p, from |-> f]

Init ==
    /\ original_file = EmptyDict
    /\ merged_file = EmptyDict
    /\ modifications = << >>
    /\ now = 0
    /\ saved = EmptyConfig
    /\ result = [success |-> FALSE, raised |-> ""]
    /\ last = [op |-> "none"]
    /\ base = EmptyConfig
    /\ working = EmptyConfig
    /\ patch = EmptyPatch
    /\ target = EmptyConfig
    /\ out = EmptyConfig
    /\ out2 = EmptyConfig
    /\ pc = Phase("start", "none")

-----------------------------------------------------------------------------
(* The differ and the merge engine applied to documents drawn from the     *)
(* bounded sets above                                                      *)

\* save_modification's diff (lines 235-330) of two snapshots; the patch is
\* to be replayed on the base it was computed from
ComputeDelta ==
    /\ pc.phase = "start"
    /\ \E A \in Snapshots, B \in Snapshots :
          /\ base' = A
          /\ working' = B
          /\ patch' = modification(A, B)
          /\ target' = A
    /\ pc' = Phase("ready", "delta")
    /\ UNCHANGED <<out, out2>>
    /\ UNCHANGED store_vars

\* load_modification (lines 388-399) of a stored patch, to be replayed on
\* some target
LoadPatch ==
    /\ pc.phase = "start"
    /\ \E P \in Patches, T \in Targets :
          /\ patch' = P
          /\ target' = T
    /\ pc' = Phase("ready", "file")
    /\ UNCHANGED <<base, working, out, out2>>
    /\ UNCHANGED store_vars

\* apply_modification's merge (lines 418-503) of the patch into the target
Apply ==
    /\ pc.phase = "ready"
    /\ out' = apply_custom(patch, target)
    /\ pc' = Phase("applied", pc.from)
    /\ UNCHANGED <<base, working, patch, target, out2>>
    /\ UNCHANGED store_vars

\* the same patch merged once more into the result
ApplyAgain ==
    /\ pc.phase = "applied"
    /\ out2' = apply_custom(patch, out)
    /\ pc' = Phase("applied twice", pc.from)
    /\ UNCHANGED <<base, working, patch, target, out>>
    /\ UNCHANGED store_vars

NextFn == ComputeDelta \/ LoadPatch \/ Apply \/ ApplyAgain

SpecFn == Init /\ [][NextFn]_vars

-----------------------------------------------------------------------------
(* Document store *)

\* lines 30-33: the custom configuration is a fresh, empty document
load_custom == MkConfig(<< >>, << >>)

\* lines 23-28
load_original == original_file

RECURSIVE DictValues(_, _)
\* list({g["name"]: g for g in groups}.values())
DictValues(groups, keys) ==
    IF keys = << >> THEN << >>
    ELSE <<DictValue(groups, Head(keys))>> \o DictValues(groups, Tail(keys))

\* lines 40-75, with custom.update(...) of a group that both documents have
get_merged_config(original, custom) ==
    LET merged_groups ==
            LET mg == original["proxy-groups"]
                cg == custom["proxy-groups"]
                updated == [i \in 1..Len(mg) |->
                               IF mg[i]["name"] \in GroupNames(cg)
                               THEN [k \in (DOMAIN mg[i]) \cup (DOMAIN DictValue(cg, mg[i]["name"])) |->
                                        IF k \in DOMAIN DictValue(cg, mg[i]["name"])
                                        THEN DictValue(cg, mg[i]["name"])[k] ELSE mg[i][k]]
                               ELSE mg[i]]
            IN DictValues(updated, DictKeys(updated))
                 \o DictValues(cg, DropSeqBy(DictKeys(cg), GroupNames(mg)))
        m1 == IF "proxy-groups" \in DOMAIN original /\ "proxy-groups" \in DOMAIN custom
              THEN Put(original, "proxy-groups", merged_groups) ELSE original
        m2 == IF "rules" \in DOMAIN custom /\ "rules" \notin DOMAIN m1 THEN Put(m1, "rules", << >>) ELSE m1
    IN IF "rules" \in DOMAIN custom
       THEN Put(m2, "rules", m2["rules"] \o RulesNotIn(custom["rules"], StrSet(m2["rules"])))
       ELSE m2

\* the subscriptions a refresh may download
Subscriptions ==
    {MkConfig(<<MkGroup("g1", <<"p1">>, None)>>, <<StrRule(<<"1">>)>>),
     MkConfig(<< >>, <<StrRule(<<"T", ",", "v", ",", "P">>), StrRule(<<"1">>)>>)}

ModNames == {"m"}

-----------------------------------------------------------------------------
(* Rule list editor: what each handler does to the custom configuration it *)
(* loaded.  An outcome is the handler's return value or the exception that *)
(* left it, the custom configuration at that point, and whether            *)
(* save_custom was reached.                                                *)

Returned(ok, custom, save) == [success |-> ok, raised |-> "", custom |-> custom, saves |-> save]
Raised(exc, custom) == [success |-> FALSE, raised |-> exc, custom |-> custom, saves |-> FALSE]

\* an index argument: an integer, or None when the request has none
Index(n) == [is_none |-> FALSE, n |-> n]
NoIndex == [is_none |-> TRUE, n |-> 0]

\* s[i] of a Python list of length len: the position in 1..len, 0 for IndexError
PyPos(i, len) == IF 0 <= i /\ i < len THEN i + 1 ELSE IF i < 0 /\ 0 - len <= i THEN len + i + 1 ELSE 0

Swap(s, a, b) == [s EXCEPT ![a] = s[b], ![b] = s[a]]

\* lines 131-150
do_add_rule(custom, rule_data) ==
    LET text == rule_str(rule_data)
    IN IF \E i \in 1..Len(custom["rules"]) :
             custom["rules"][i].kind = "str" /\ custom["rules"][i].text = text
       THEN Returned(FALSE, custom, FALSE)
       ELSE Returned(TRUE, Put(custom, "rules", Append(custom["rules"], StrRule(text))), TRUE)

\* lines 152-165
do_update_rule(custom, index, rule_data) ==
    IF ~index.is_none /\ 0 <= index.n /\ index.n < Len(custom["rules"])
    THEN Returned(TRUE, Put(custom, "rules",
                            [custom["rules"] EXCEPT ![index.n + 1] = StrRule(rule_str(rule_data))]), TRUE)
    ELSE Returned(FALSE, custom, FALSE)

\* lines 167-174
do_delete_rule(custom, index) ==
    IF ~index.is_none /\ 0 <= index.n /\ index.n < Len(custom["rules"])
    THEN Returned(TRUE, Put(custom, "rules",
                            SubSeq(custom["rules"], 1, index.n)
                              \o SubSeq(custom["rules"], index.n + 2, Len(custom["rules"]))), TRUE)
    ELSE Returned(FALSE, custom, FALSE)

\* the swap of lines 556 and 558: both elements are read, then both written
swap_rules(custom, i, j) ==
    LET rules == custom["rules"]
        a == PyPos(i, Len(rules))
        b == PyPos(j, Len(rules))
    IN IF a = 0 \/ b = 0 THEN Raised("IndexError", custom)
       ELSE Returned(TRUE, Put(custom, "rules", Swap(rules, a, b)), TRUE)

\* variant: the test for moving up lets index 0 through
do_move_rule_from_zero(custom, index, direction) ==
    IF direction = "up" /\ index.n >= 0 THEN swap_rules(custom, index.n, index.n - 1)
    ELSE IF direction = "down" /\ index.n < Len(custom["rules"]) - 1
    THEN swap_rules(custom, index.n, index.n + 1)
    ELSE Returned(FALSE, custom, FALSE)

\* lines 550-564; comparing None with an integer raises TypeError
do_move_rule(custom, index, direction) ==
    IF direction = "up"
    THEN IF index.is_none THEN Raised("TypeError", custom)
         ELSE IF index.n > 0 THEN swap_rules(custom, index.n, index.n - 1)
         ELSE Returned(FALSE, custom, FALSE)
    ELSE IF direction = "down"
    THEN IF index.is_none THEN Raised("TypeError", custom)
         ELSE IF index.n < Len(custom["rules"]) - 1 THEN swap_rules(custom, index.n, index.n + 1)
         ELSE Returned(FALSE, custom, FALSE)
    ELSE Returned(FALSE, custom, FALSE)

-----------------------------------------------------------------------------
(* The handlers of the running program *)

Result(o) == [success |-> o.success, raised |-> o.raised]

IndexArgs(n) == {Index(i) : i \in (0 - (n + 1))..(n + 1)} \cup {NoIndex}

Directions == {"up", "down"}

\* what a rule-editor handler leaves behind: its result, and the argument
\* of save_custom (lines 35-38, which stores nothing) when it got that far
Finish(o, call) ==
    /\ result' = Result(o)
    /\ saved' = IF o.saves THEN o.custom ELSE saved
    /\ last' = call
    /\ UNCHANGED <<original_file, merged_file, modifications, now>>
    /\ UNCHANGED fn_vars

add_rule(rule_data) ==
    Finish(do_add_rule(load_custom, rule_data), [op |-> "add_rule", rule_data |-> rule_data])

update_rule(index, rule_data) ==
    Finish(do_update_rule(load_custom, index, rule_data),
           [op |-> "update_rule", index |-> index, rule_data |-> rule_data])

delete_rule(index) ==
    Finish(do_delete_rule(load_custom, index), [op |-> "delete_rule", index |-> index])

move_rule(index, direction) ==
    Finish(do_move_rule(load_custom, index, direction),
           [op |-> "move_rule", index |-> index, direction |-> direction])

\* lines 176-181
save_config == merged_file' = get_merged_config(load_original, load_custom)

\* lines 183-203: the download fails, or yields a document that replaces
\* the original configuration
refresh_subscription ==
    /\ \/ /\ result' = [success |-> FALSE, raised |-> ""]
          /\ UNCHANGED <<original_file, merged_file>>
       \/ \E new_config \in Subscriptions :
             /\ original_file' = new_config
             /\ merged_file' = get_merged_config(new_config, load_custom)
             /\ result' = [success |-> TRUE, raised |-> ""]
    /\ last' = [op |-> "refresh_subscription"]
    /\ UNCHANGED <<modifications, now, saved>>
    /\ UNCHANGED fn_vars

\* lines 208-338: the file is named after mod_name and the clock's second
\* and opened for writing
save_modification(mod_name) ==
    LET filename == <<mod_name, now>>
        record == [name |-> mod_name, created_at |-> now,
                   changes |-> modification(load_original, load_custom)]
    IN /\ modifications' = Put(modifications, filename, record)
       /\ result' = [success |-> TRUE, raised |-> "", filename |-> filename]
       /\ last' = [op |-> "save_modification", filename |-> filename]
       /\ UNCHANGED <<original_file, merged_file, now, saved>>
       /\ UNCHANGED fn_vars

\* lines 402-533
apply_modification(filename) ==
    /\ IF filename \in DOMAIN modifications
       THEN /\ saved' = apply_custom(modifications[filename].changes, load_custom)
            /\ save_config
            /\ result' = [success |-> TRUE, raised |-> ""]
       ELSE /\ result' = [success |-> FALSE, raised |-> ""]
            /\ UNCHANGED <<saved, merged_file>>
    /\ last' = [op |-> "apply_modification", filename |-> filename]
    /\ UNCHANGED <<original_file, modifications, now>>
    /\ UNCHANGED fn_vars

\* lines 535-544
delete_modification(filename) ==
    /\ IF filename \in DOMAIN modifications
       THEN /\ modifications' = [f \in (DOMAIN modifications) \ {filename} |-> modifications[f]]
            /\ result' = [success |-> TRUE, raised |-> ""]
       ELSE /\ result' = [success |-> FALSE, raised |-> ""]
            /\ UNCHANGED modifications
    /\ last' = [op |-> "delete_modification", filename |-> filename]
    /\ UNCHANGED <<original_file, merged_file, now, saved>>
    /\ UNCHANGED fn_vars

\* the clock of datetime.now() advances
Tick ==
    /\ now < MaxTime
    /\ now' = now + 1
    /\ UNCHANGED <<original_file, merged_file, modifications, saved, result, last>>
    /\ UNCHANGED fn_vars

Filenames == ModNames \X (0..MaxTime)

Next ==
    \/ \E rule_data \in RuleData : add_rule(rule_data)
    \/ \E index \in IndexArgs(1), rule_data \in RuleData : update_rule(index, rule_data)
    \/ \E index \in IndexArgs(1) : delete_rule(index)
    \/ \E index \in IndexArgs(1), direction \in Directions : move_rule(index, direction)
    \/ refresh_subscription
    \/ \E mod_name \in ModNames : save_modification(mod_name)
    \/ \E filename \in Filenames : apply_modification(filename)
    \/ \E filename \in Filenames : delete_modification(filename)
    \/ Tick

Spec == Init /\ [][Next]_vars

-----------------------------------------------------------------------------
(* The rule editor applied to rule lists drawn from a bounded set *)

EditorLists == SeqsUpTo(RuleVals, MaxEdit)

\* the custom configuration a handler works on
LoadRules ==
    /\ pc.phase = "start"
    /\ \E rules \in EditorLists : working' = MkConfig(<< >>, rules)
    /\ pc' = Phase("ready", "editor")
    /\ UNCHANGED <<base, patch, target, out, out2>>
    /\ UNCHANGED store_vars

Edited(o, call) ==
    /\ pc = Phase("ready", "editor")
    /\ out' = o.custom
    /\ result' = Result(o)
    /\ last' = call
    /\ pc' = Phase("edited", "editor")
    /\ UNCHANGED <<base, working, patch, target, out2>>
    /\ UNCHANGED <<original_file, merged_file, modifications, now, saved>>

Insert ==
    \E rule_data \in RuleData :
        Edited(do_add_rule(working, rule_data), [op |-> "add_rule", rule_data |-> rule_data])

UpdateAt ==
    \E index \in IndexArgs(MaxEdit), rule_data \in RuleData :
        Edited(do_update_rule(working, index, rule_data),
               [op |-> "update_rule", index |-> index, rule_data |-> rule_data])

DeleteAt ==
    \E index \in IndexArgs(MaxEdit) :
        Edited(do_delete_rule(working, index), [op |-> "delete_rule", index |-> index])

SwapAt ==
    \E index \in IndexArgs(MaxEdit), direction \in Directions :
        Edited(do_move_rule(working, index, direction),
               [op |-> "move_rule", index |-> index, direction |-> direction])

NextEdit == LoadRules \/ Insert \/ UpdateAt \/ DeleteAt \/ SwapAt

SpecEdit == Init /\ [][NextEdit]_vars

-----------------------------------------------------------------------------
(* Properties of the differ and the merge engine *)

\* a group with its proxies taken as a set
AsSet(g) == [k \in DOMAIN g |-> IF k = "proxies" THEN Range(g[k]) ELSE g[k]]

GroupSet(config) == {AsSet(g) : g \in Range(config["proxy-groups"])}

Diffed == pc.from = "delta" /\ pc.phase # "start"
Applied == pc.phase \in {"applied", "applied twice"}

\* C1: replaying computeDelta(A, B) on A gives B's set of proxy groups
\* (proxies as a set, every other field equal) and B's rule sequence.
C1_RoundTrip ==
    (Diffed /\ Applied) =>
        /\ GroupSet(out) = GroupSet(working)
        /\ out["rules"] = working["rules"]

ModifiedNames(p) == {p.proxy_groups.modified[i].name : i \in 1..Len(p.proxy_groups.modified)}

\* C2: every group of the target whose name is neither modified nor deleted
\* by the patch is in the result with all its attributes unchanged, also
\* when the patch adds a group of the same name.
C2_UnrelatedGroupsKept ==
    Applied =>
        \A g \in Range(target["proxy-groups"]) :
            g["name"] \notin ModifiedNames(patch) \cup Range(patch.proxy_groups.deleted)
                => g \in Range(out["proxy-groups"])

\* C3: applying a patch to the result of applying it gives the same set of
\* groups as applying it once.
C3_ApplyIdempotentOnGroups ==
    pc.phase = "applied twice" => GroupSet(out2) = GroupSet(out)

\* a patch with added and modified groups was applied twice to a target
\* that has groups, and left groups in the result
C3_Witness ==
    /\ pc.phase = "applied twice"
    /\ patch.proxy_groups.added # << >>
    /\ patch.proxy_groups.modified # << >>
    /\ target["proxy-groups"] # << >>
    /\ out["proxy-groups"] # << >>

HasReorder(p) == \E i \in 1..Len(p.rules.modified) : p.rules.modified[i].type = "reorder"

\* C4: the differ's patch has a reorder entry exactly when base and working
\* have the same set of rule strings and different rule sequences, and never
\* together with added or deleted rules.
C4_ReorderIff ==
    Diffed =>
        /\ HasReorder(patch) <=> (/\ StrSet(base["rules"]) = StrSet(working["rules"])
                                  /\ base["rules"] # working["rules"])
        /\ HasReorder(patch) => (patch.rules.added = << >> /\ patch.rules.deleted = << >>)

\* the differ recorded a reorder of two rules
C4_Witness ==
    /\ Diffed
    /\ HasReorder(patch)
    /\ Len(base["rules"]) = 2

\* C5: no modified entry of the differ's patch has added_proxies,
\* deleted_proxies and fields_changed all empty.
C5_NoEmptyModifiedEntry ==
    Diffed =>
        \A i \in 1..Len(patch.proxy_groups.modified) :
            LET e == patch.proxy_groups.modified[i]
            IN e.added_proxies # << >> \/ e.deleted_proxies # << >> \/ DOMAIN e.fields_changed # {}

\* C6: the delta of a snapshot with itself has empty added, modified and
\* deleted lists for groups and for rules.
C6_SelfDeltaEmpty ==
    (Diffed /\ base = working) => patch = EmptyPatch

\* the differ compared a snapshot that has a group and a rule with itself
C6_Witness ==
    /\ Diffed
    /\ base = working
    /\ base["proxy-groups"] # << >>
    /\ base["rules"] # << >>

-----------------------------------------------------------------------------
(* Properties of the rule editor *)

EditorOps == {"add_rule", "update_rule", "delete_rule", "move_rule"}

\* C7: inserting a rule whose canonical string is a rule of the working
\* snapshot (the snapshot the last edit saved) returns success = false and
\* leaves the working rule sequence unchanged.
C7_DuplicateInsertFails ==
    [][\A rule_data \in RuleData :
          (add_rule(rule_data) /\ StrRule(rule_str(rule_data)) \in Range(saved["rules"]))
              => (~result'.success /\ saved' = saved)]_vars

\* C8: after a successful insert, updateAt, deleteAt or swap, the working
\* snapshot returned by the next load has exactly the mutated rule sequence.
C8_EditsPersist ==
    (last.op \in EditorOps /\ result.success) => load_custom["rules"] = saved["rules"]

SwapCall == pc = Phase("edited", "editor") /\ last.op = "move_rule" /\ ~last.index.is_none

\* C9: swap fails and leaves the rule sequence unchanged at index 0 with
\* direction up and at the last index with direction down; at every other
\* index of the sequence it exchanges the element with its neighbour in that
\* direction and leaves the other positions unchanged.
C9_SwapAtBoundaries ==
    SwapCall =>
        LET rules == working["rules"]
            i == last.index.n
            boundary == \/ i = 0 /\ last.direction = "up"
                        \/ i = Len(rules) - 1 /\ last.direction = "down"
            j == IF last.direction = "up" THEN i - 1 ELSE i + 1
        IN /\ boundary => (~result.success /\ result.raised = "" /\ out["rules"] = rules)
           /\ (0 <= i /\ i < Len(rules) /\ ~boundary) =>
                  /\ result.success
                  /\ out["rules"] = [k \in 1..Len(rules) |->
                                        IF k = i + 1 THEN rules[j + 1]
                                        ELSE IF k = j + 1 THEN rules[i + 1] ELSE rules[k]]

\* the middle rule of three different rules was moved up
C9_Witness ==
    /\ SwapCall
    /\ Len(working["rules"]) = 3
    /\ working["rules"][1] # working["rules"][2]
    /\ last.index.n = 1
    /\ last.direction = "up"
    /\ result.success
    /\ out["rules"] # working["rules"]

EditorStep ==
    \/ \E rule_data \in RuleData : add_rule(rule_data)
    \/ \E index \in IndexArgs(1), rule_data \in RuleData : update_rule(index, rule_data)
    \/ \E index \in IndexArgs(1) : delete_rule(index)
    \/ \E index \in IndexArgs(1), direction \in Directions : move_rule(index, direction)

InvalidIndex(call) ==
    /\ call.op \in {"update_rule", "delete_rule", "move_rule"}
    /\ \/ call.index.n < 0
       \/ call.index.n >= Len(load_custom["rules"])

\* C10: every rule-editor operation ends with a {success, message} result
\* and never with an exception, whatever the integer index; an invalid index
\* gives success = false and leaves the rule sequence unchanged.
C10_StructuredResults ==
    [][(EditorStep /\ (last'.op = "add_rule" \/ ~last'.index.is_none)) =>
          /\ result'.raised = ""
          /\ InvalidIndex(last') => (~result'.success /\ saved' = saved)]_vars

-----------------------------------------------------------------------------
(* Properties of the stored patches *)

\* C11: the content of a stored patch never changes while it stays in the
\* store, and saving under the identifier {name}_{timestamp} of a stored
\* patch fails instead of overwriting it.
C11_StoredPatchesImmutable ==
    [][/\ \A f \in (DOMAIN modifications) \cap (DOMAIN modifications') :
              modifications'[f] = modifications[f]
       /\ \A mod_name \in ModNames :
              (save_modification(mod_name) /\ <<mod_name, now>> \in DOMAIN modifications)
                  => ~result'.success]_vars

-----------------------------------------------------------------------------
(* Properties of the order of the merge steps *)

AddedNames(p) == {p.proxy_groups.added[i]["name"] : i \in 1..Len(p.proxy_groups.added)}

\* C12: a name that is in both the added groups and the deleted names of a
\* patch is absent from the groups of the result, whatever the target.
C12_DeleteAfterAdd ==
    Applied =>
        \A name \in AddedNames(patch) \cap Range(patch.proxy_groups.deleted) :
            \A i \in 1..Len(out["proxy-groups"]) : out["proxy-groups"][i]["name"] # name

\* a patch that adds and deletes the same name was applied
C12_Witness ==
    /\ Applied
    /\ AddedNames(patch) \cap Range(patch.proxy_groups.deleted) # {}

-----------------------------------------------------------------------------
(* Properties of the modify step *)

\* the entries of the patch whose effect the result shows: the name is in
\* one modified entry only and is neither added nor deleted by the patch
PlainModified(p) ==
    {i \in 1..Len(p.proxy_groups.modified) :
        /\ \A j \in 1..Len(p.proxy_groups.modified) :
               p.proxy_groups.modified[j].name = p.proxy_groups.modified[i].name => j = i
        /\ p.proxy_groups.modified[i].name \notin AddedNames(p) \cup Range(p.proxy_groups.deleted)}

\* group r is group g after entry e: proxies (g's plus added) minus deleted,
\* the fields of fields_changed at their new value, every other field as in g
ModifiedAs(r, g, e) ==
    /\ Range(Get(r, "proxies", << >>)) =
           (Range(Get(g, "proxies", << >>)) \cup Range(e.added_proxies)) \ Range(e.deleted_proxies)
    /\ (DOMAIN r) \ {"proxies"} = ((DOMAIN g) \cup (DOMAIN e.fields_changed)) \ {"proxies"}
    /\ \A k \in (DOMAIN r) \ {"proxies"} :
           r[k] = IF k \in DOMAIN e.fields_changed THEN e.fields_changed[k].new ELSE g[k]

GroupsNamed(groups, name) == {i \in 1..Len(groups) : groups[i]["name"] = name}

\* C13: a modified entry whose name is a group of the target leaves that
\* group with proxies (target's plus added_proxies) minus deleted_proxies,
\* the fields of fields_changed at their new value and its other fields
\* unchanged; an entry whose name is not in the target inserts its `new`.
C13_ModifyStep ==
    Applied =>
        \A i \in PlainModified(patch) :
            LET e == patch.proxy_groups.modified[i]
                before == GroupsNamed(target["proxy-groups"], e.name)
                after == GroupsNamed(out["proxy-groups"], e.name)
            IN /\ Cardinality(after) = 1
               /\ \A a \in after :
                      IF before # {}
                      THEN \A b \in before :
                               ModifiedAs(out["proxy-groups"][a], target["proxy-groups"][b], e)
                      ELSE out["proxy-groups"][a] = e.new

LastReorder(p) ==
    LET reorders == {i \in 1..Len(p.rules.modified) : p.rules.modified[i].type = "reorder"}
    IN p.rules.modified[CHOOSE i \in reorders : \A j \in reorders : j <= i]

Without(rules, others) ==
    SelectSeq(rules, LAMBDA r : \A i \in 1..Len(others) : Str(others[i]) # Str(r))

\* C14: applying a patch with a reorder entry leaves that entry's new_rules
\* without the rules whose string is in deleted, whatever the target's rules
\* and the patch's added rules are; applying a patch without one leaves the
\* target's rules, then the added rules absent from the target in patch
\* order, without the rules whose string is in deleted.
C14_RuleApplyOrder ==
    Applied =>
        out["rules"] =
            Without(IF HasReorder(patch)
                    THEN LastReorder(patch).new_rules
                    ELSE target["rules"] \o Without(patch.rules.added, target["rules"]),
                    patch.rules.deleted)

\* a patch with a reorder entry and an added rule that neither the target,
\* nor new_rules, nor deleted names has been applied
C14_Witness ==
    /\ Applied
    /\ HasReorder(patch)
    /\ \E i \in 1..Len(patch.rules.added) :
           /\ Without(<<patch.rules.added[i]>>, target["rules"]) # << >>
           /\ Without(<<patch.rules.added[i]>>, LastReorder(patch).new_rules) # << >>
           /\ Without(<<patch.rules.added[i]>>, patch.rules.deleted) # << >>

====
